---- MODULE Spec2Model ----
(***************************************************************************)
(* Model of cypher_relationships.py: the schema parser, the regular-       *)
(* expression scanner, the label resolver, the schema matcher, the         *)
(* direction corrector and the loop of fix_cypher_relationship_directions. *)
(*                                                                         *)
(* Texts are sequences of one-character strings, so that scanning,         *)
(* splitting and str.replace are computed character by character.          *)
(***************************************************************************)
EXTENDS Integers, Sequences, FiniteSets, TLC

VARIABLES
    input_text,     \* the cypher_text argument of the first call
    schema_text,    \* the schema_text argument
    cypher_text,    \* the local cypher_text, rewritten by the loop
    schema_lst,     \* process_schema(schema_text)
    relationships,  \* detect_relationships(...): one record per match
    idx,            \* position of the for loop of lines 70-81
    pc,             \* "start", "loop", "done" (main); "schema", "parsed"
    call,           \* 1 for the first call, 2 for the call on its result
    first_result    \* the value returned by the first call

vars == <<input_text, schema_text, cypher_text, schema_lst, relationships,
          idx, pc, call, first_result>>

(***************************************************************************)
(* Python string primitives                                                *)
(***************************************************************************)

\* s[from:] of Python, with 1-based from
Tail_(s, from) == SubSeq(s, from, Len(s))

\* s.startswith(pre) at position p (1-based)
StartsAt(s, p, pre) ==
    /\ p + Len(pre) - 1 <= Len(s)
    /\ \A k \in 1..Len(pre) : s[p + k - 1] = pre[k]

\* sub in s
Contains(s, sub) == \E p \in 1..(Len(s) + 1) : StartsAt(s, p, sub)

RECURSIVE LStrip(_, _)
\* s.lstrip(c) for a one-character c
LStrip(s, c) ==
    IF Len(s) > 0 /\ s[1] = c THEN LStrip(Tail(s), c) ELSE s

RECURSIVE RStrip(_, _)
\* s.rstrip(c) for a one-character c
RStrip(s, c) ==
    IF Len(s) > 0 /\ s[Len(s)] = c THEN RStrip(SubSeq(s, 1, Len(s) - 1), c) ELSE s

\* removal of every character of the set cs: s.replace(c, "") / re.sub("[cs]*", "", s)
RemoveChars(s, cs) == SelectSeq(s, LAMBDA ch : ch \notin cs)

RECURSIVE Replace(_, _, _)
\* s.replace(old, new): every non-overlapping copy of old, left to right
Replace(s, old, new) ==
    IF Len(s) = 0 \/ Len(old) = 0 THEN s
    ELSE IF StartsAt(s, 1, old)
         THEN new \o Replace(Tail_(s, Len(old) + 1), old, new)
         ELSE <<s[1]>> \o Replace(Tail(s), old, new)

RECURSIVE SplitFrom(_, _, _)
\* s.split(sep), acc being the characters of the field under construction
SplitFrom(s, sep, acc) ==
    IF Len(s) = 0 THEN <<acc>>
    ELSE IF StartsAt(s, 1, sep)
         THEN <<acc>> \o SplitFrom(Tail_(s, Len(sep) + 1), sep, <<>>)
         ELSE SplitFrom(Tail(s), sep, Append(acc, s[1]))

\* s.split(sep): "".split(sep) is [""]
Split(s, sep) == SplitFrom(s, sep, <<>>)

\* t[::-1] for a tuple
Reverse(t) == [k \in 1..Len(t) |-> t[Len(t) + 1 - k]]

\* x in lst
InList(x, lst) == \E k \in 1..Len(lst) : lst[k] = x

(***************************************************************************)
(* process_schema                                                          *)
(***************************************************************************)

\* the list of tuples; a tuple has as many fields as its group has commas + 1
process_schema(text) ==
    LET stripped == RStrip(LStrip(RemoveChars(text, {" "}), "("), ")")
        items == Split(stripped, <<")", ",", "(">>)
    IN [k \in 1..Len(items) |-> Split(items[k], <<",">>)]

(***************************************************************************)
(* PATTERN_CONFIG: the character classes and the three sub-patterns        *)
(***************************************************************************)

\* the backquote character, written as one symbol of the alphabet
Backtick == "backquote"
Digits == {"0", "1", "2"}
\* the letters of [a-zA-Z0-9_] that the modelled inputs can contain
WordChars == {"a", "b", "c", "r", "A", "B", "C", "X", "Y", "Z", "_"} \cup Digits
NodeLabelChars == WordChars \cup {":", "!", Backtick}
RelLabelChars == NodeLabelChars \cup {"|"}
HopChars == Digits \cup {"."}

RECURSIVE TakeWhile(_, _, _)
\* first position q >= p with t[q] outside cs: the end of a greedy [cs]*
TakeWhile(t, p, cs) ==
    IF p <= Len(t) /\ t[p] \in cs THEN TakeWhile(t, p + 1, cs) ELSE p

At(t, p, ch) == p <= Len(t) /\ t[p] = ch

NoMatch == [ok |-> FALSE]

Whitespace == {" "}

RECURSIVE PropsEnds(_, _)
RECURSIVE IterEnds(_, _)
\* the ends of (\{.*?\})* started at p, in the order the backtracking matcher
\* tries them: the star is greedy (one more iteration before none), the body
\* of an iteration is lazy (the nearest "}" before a farther one), and "."
\* is any character of the text (the texts have no newline)
PropsEnds(t, p) ==
    (IF At(t, p, "{") THEN IterEnds(t, p + 1) ELSE <<>>) \o <<p>>

\* the ends reached through an iteration whose "}" is at q or later
IterEnds(t, q) ==
    IF q > Len(t) THEN <<>>
    ELSE (IF t[q] = "}" THEN PropsEnds(t, q + 1) ELSE <<>>) \o IterEnds(t, q + 1)

\* node1_pattern / node2_pattern at position p: the variable name and the
\* labels are fixed by the greedy classes, ends lists the positions after
\* the closing ")" in the order the matcher tries them
MatchNode(t, p) ==
    IF ~At(t, p, "(") THEN NoMatch
    ELSE LET v == TakeWhile(t, p + 1, WordChars)
             l == TakeWhile(t, v, NodeLabelChars)
             s == TakeWhile(t, l, Whitespace)
             closed == SelectSeq(PropsEnds(t, s), LAMBDA e : At(t, e, ")"))
         IN IF Len(closed) > 0
            THEN [ok |-> TRUE, var_name |-> SubSeq(t, p + 1, v - 1),
                  labels |-> SubSeq(t, v, l - 1),
                  ends |-> [k \in 1..Len(closed) |-> closed[k] + 1],
                  end |-> closed[1] + 1]
            ELSE NoMatch

\* the rest of arrow_pattern after its property group ended at e
ArrowTail(t, left, v, l, e) ==
    LET h0 == IF At(t, e, "*") THEN e + 1 ELSE e
        h == TakeWhile(t, h0, HopChars)
        p3 == IF At(t, h, "]") THEN h + 1 ELSE h
    IN IF ~At(t, p3, "-") THEN <<>>
       ELSE LET right == At(t, p3 + 1, ">")
            IN <<[rel_left_arrow |-> left,
                  rel_right_arrow |-> right,
                  rel_labels |-> SubSeq(t, v, l - 1),
                  rel_hops |-> SubSeq(t, e, h - 1),
                  end |-> IF right THEN p3 + 2 ELSE p3 + 1]>>

RECURSIVE Flatten(_)
Flatten(seqs) == IF seqs = <<>> THEN <<>> ELSE Head(seqs) \o Flatten(Tail(seqs))

\* arrow_pattern at position p: its matches in the order the matcher tries them
MatchArrow(t, p) ==
    LET left == At(t, p, "<")
        p1 == IF left THEN p + 1 ELSE p
    IN IF ~At(t, p1, "-") THEN <<>>
       ELSE LET p2 == IF At(t, p1 + 1, "[") THEN p1 + 2 ELSE p1 + 1
                v == TakeWhile(t, p2, WordChars)
                l == TakeWhile(t, v, RelLabelChars)
                s == TakeWhile(t, l, Whitespace)
                es == PropsEnds(t, s)
            IN Flatten([k \in 1..Len(es) |-> ArrowTail(t, left, v, l, es[k])])

\* the matches of arrow node2 after a node1 that ended at e
WholeTail(t, p, n1, e) ==
    LET as == MatchArrow(t, e)
        one(a) ==
            LET n2 == MatchNode(t, a.end)
            IN IF ~n2.ok THEN <<>>
               ELSE <<[ok |-> TRUE, start |-> p, end |-> n2.end,
                       whole_relationship |-> SubSeq(t, p, n2.end - 1),
                       node1_var_name |-> n1.var_name,
                       node1_labels |-> n1.labels,
                       node2_var_name |-> n2.var_name,
                       node2_labels |-> n2.labels,
                       rel_left_arrow |-> a.rel_left_arrow,
                       rel_right_arrow |-> a.rel_right_arrow,
                       rel_labels |-> a.rel_labels,
                       rel_hops |-> a.rel_hops]>>
    IN Flatten([k \in 1..Len(as) |-> one(as[k])])

\* the look-ahead pattern node1 arrow node2 at position p: the first match in
\* the matcher's order, which gives up the latest choice first
MatchWhole(t, p) ==
    LET n1 == MatchNode(t, p)
    IN IF ~n1.ok THEN NoMatch
       ELSE LET all == Flatten([k \in 1..Len(n1.ends) |->
                                    WholeTail(t, p, n1, n1.ends[k])])
            IN IF all = <<>> THEN NoMatch ELSE all[1]

(***************************************************************************)
(* detect_relationships: scanner, label resolver, characterizer, negation  *)
(***************************************************************************)

\* next(iter(labels.lstrip(":").replace("`", "").split(":") or [""]))
FirstLabel(labels) ==
    Split(RemoveChars(LStrip(labels, ":"), {Backtick}), <<":">>)[1]

RECURSIVE NodeMatchesFrom(_, _)
\* re.finditer(node1_pattern, cypher_text): non-overlapping, left to right
NodeMatchesFrom(t, p) ==
    IF p > Len(t) THEN <<>>
    ELSE LET n == MatchNode(t, p)
         IN IF n.ok THEN <<n>> \o NodeMatchesFrom(t, n.end)
            ELSE NodeMatchesFrom(t, p + 1)

\* node_label_map as the list of its (key, value) insertions, in order;
\* only nodes with a non-empty label group are entered
node_label_map(t) ==
    LET nodes == SelectSeq(NodeMatchesFrom(t, 1), LAMBDA n : Len(n.labels) > 0)
    IN [k \in 1..Len(nodes) |->
           [var_name |-> nodes[k].var_name, label |-> FirstLabel(nodes[k].labels)]]

\* node_label_map.get(var_name, ""): a later insertion overwrites an earlier one
MapGet(map, var_name) ==
    LET hits == {k \in 1..Len(map) : map[k].var_name = var_name}
    IN IF hits = {} THEN <<>>
       ELSE map[CHOOSE k \in hits : \A j \in hits : j <= k].label

\* label1 of a node of the relationship after propagation
detect_node_labels(t, var_name, labels) ==
    LET own == FirstLabel(labels)
    IN IF own = <<>> THEN MapGet(node_label_map(t), var_name) ELSE own

\* relationship["direction"]: "<", ">" or "" (None)
Direction(m) ==
    IF m.rel_left_arrow THEN "<" ELSE IF m.rel_right_arrow THEN ">" ELSE ""

is_variable_length(hops) ==
    \/ hops = <<"*">>
    \/ Contains(hops, <<"*">>) /\ Contains(hops, <<".", ".">>)

\* [re.sub(r"[\s`:]*", "", label) for label in rel_labels.split("|")]
multi_labels(rel_labels) ==
    LET parts == Split(rel_labels, <<"|">>)
    IN [k \in 1..Len(parts) |-> RemoveChars(parts[k], {" ", Backtick, ":"})]

is_negated_label(rel_labels) == StartsAt(LStrip(rel_labels, ":"), 1, <<"!">>)

\* the candidate list of a negated relationship: the types of the schema,
\* in schema order and with repetitions, other than the negated one
transform_negated_to_multi_label(rel_labels, schema) ==
    LET negated_label == LStrip(RemoveChars(LStrip(rel_labels, ":"), {Backtick}), "!")
        kept == SelectSeq(schema, LAMBDA item : item[2] # negated_label)
    IN [k \in 1..Len(kept) |-> kept[k][2]]

\* the dictionary of one match after detect_node_labels,
\* detect_relationship_characteristics and transform_negated_to_multi_label
Relationship(t, m, schema) ==
    [start |-> m.start,
     whole_relationship |-> m.whole_relationship,
     node1 |-> [var_name |-> m.node1_var_name, labels |-> m.node1_labels,
                label1 |-> detect_node_labels(t, m.node1_var_name, m.node1_labels)],
     node2 |-> [var_name |-> m.node2_var_name, labels |-> m.node2_labels,
                label1 |-> detect_node_labels(t, m.node2_var_name, m.node2_labels)],
     tup |-> <<detect_node_labels(t, m.node1_var_name, m.node1_labels),
               RemoveChars(LStrip(m.rel_labels, ":"), {Backtick}),
               detect_node_labels(t, m.node2_var_name, m.node2_labels)>>,
     direction |-> Direction(m),
     is_variable_length |-> is_variable_length(m.rel_hops),
     is_negated_label |-> is_negated_label(m.rel_labels),
     multi_labels |-> IF is_negated_label(m.rel_labels)
                      THEN transform_negated_to_multi_label(m.rel_labels, schema)
                      ELSE multi_labels(m.rel_labels),
     is_correct |-> "unset",
     schema_match |-> "unset"]

RECURSIVE MatchesFrom(_, _)
\* re.finditer of the look-ahead pattern: one match per start position
MatchesFrom(t, p) ==
    IF p > Len(t) THEN <<>>
    ELSE LET m == MatchWhole(t, p)
         IN (IF m.ok THEN <<m>> ELSE <<>>) \o MatchesFrom(t, p + 1)

detect_relationships(t, schema) ==
    LET ms == MatchesFrom(t, 1)
    IN [k \in 1..Len(ms) |-> Relationship(t, ms[k], schema)]

(***************************************************************************)
(* Schema matcher                                                          *)
(***************************************************************************)

\* is_unfixable without the variable-length test
is_unfixable_without_hops(rel) ==
    \/ rel.direction = ""
    \/ rel.node1.label1 = rel.node2.label1

is_unfixable(rel) ==
    \/ rel.direction = ""
    \/ rel.node1.label1 = rel.node2.label1
    \/ rel.is_variable_length

is_complete(tup) == \A k \in 1..3 : tup[k] # <<>>

make_left_to_right(rel, tup) ==
    IF rel.direction = "<" THEN Reverse(tup) ELSE tup

\* zip([item[i] for item in schema_lst], [item[j] for item in schema_lst])
Zip2(schema, i, j) == [k \in 1..Len(schema) |-> <<schema[k][i], schema[k][j]>>]

\* [item[i] for item in schema_lst]
Column(schema, i) == [k \in 1..Len(schema) |-> schema[k][i]]

\* the two keys a lookup writes; v is the pair before the lookup, kept where
\* a branch writes only schema_match
Verdict(v, correct, match) ==
    [is_correct |-> IF correct = "keep" THEN v.is_correct ELSE correct,
     schema_match |-> match]

\* find_complete_tup_in_schema whose last branch reports a match
find_complete_tup_in_schema_lenient(rel, tup, schema, v) ==
    LET ltr == make_left_to_right(rel, tup)
    IN IF InList(ltr, schema) THEN Verdict(v, "True", "True")
       ELSE IF InList(Reverse(ltr), schema) THEN Verdict(v, "False", "True")
       ELSE Verdict(v, "True", "True")

find_complete_tup_in_schema(rel, tup, schema, v) ==
    LET ltr == make_left_to_right(rel, tup)
    IN IF InList(ltr, schema) THEN Verdict(v, "True", "True")
       ELSE IF InList(Reverse(ltr), schema) THEN Verdict(v, "False", "True")
       ELSE Verdict(v, "keep", "False")

\* Lookup2 whose second test repeats the forward columns
Lookup2_unmirrored(v, pair, schema, f1, f2, r1, r2) ==
    IF InList(pair, Zip2(schema, f1, f2)) THEN Verdict(v, "True", "True")
    ELSE IF InList(pair, Zip2(schema, f1, f2)) THEN Verdict(v, "False", "True")
    ELSE Verdict(v, "keep", "False")

\* a two-column lookup: forward pair, then mirrored pair
Lookup2(v, pair, schema, f1, f2, r1, r2) ==
    IF InList(pair, Zip2(schema, f1, f2)) THEN Verdict(v, "True", "True")
    ELSE IF InList(pair, Zip2(schema, r1, r2)) THEN Verdict(v, "False", "True")
    ELSE Verdict(v, "keep", "False")

\* a one-column lookup: natural column, then the opposite node column
Lookup1(v, x, schema, f, r) ==
    IF InList(x, Column(schema, f)) THEN Verdict(v, "True", "True")
    ELSE IF InList(x, Column(schema, r)) THEN Verdict(v, "False", "True")
    ELSE Verdict(v, "keep", "False")

find_partial_tup_in_schema(rel, tup, schema, v) ==
    LET ltr == make_left_to_right(rel, tup)
        pieces_existing == [k \in 1..3 |-> ltr[k] # <<>>]
    IN IF pieces_existing = <<TRUE, TRUE, FALSE>>
       THEN Lookup2(v, <<ltr[1], ltr[2]>>, schema, 1, 2, 3, 2)
       ELSE IF pieces_existing = <<FALSE, TRUE, TRUE>>
       THEN Lookup2(v, <<ltr[2], ltr[3]>>, schema, 2, 3, 2, 1)
       ELSE IF pieces_existing = <<TRUE, FALSE, TRUE>>
       THEN Lookup2(v, <<ltr[1], ltr[3]>>, schema, 1, 3, 3, 1)
       ELSE IF pieces_existing = <<TRUE, FALSE, FALSE>>
       THEN Lookup1(v, ltr[1], schema, 1, 3)
       ELSE IF pieces_existing = <<FALSE, FALSE, TRUE>>
       THEN Lookup1(v, ltr[3], schema, 3, 1)
       ELSE IF pieces_existing = <<FALSE, TRUE, FALSE>>
       THEN (IF InList(ltr[2], Column(schema, 2)) THEN Verdict(v, "True", "True")
             ELSE Verdict(v, "keep", "False"))
       ELSE Verdict(v, "True", "True")

\* the verdict keys after the lookup of one candidate label
find_single_label_relationship_in_schema(rel, label, schema, v) ==
    LET tup == <<rel.node1.label1, label, rel.node2.label1>>
    IN IF is_unfixable(rel) THEN Verdict(v, "True", "True")
       ELSE IF is_complete(tup) THEN find_complete_tup_in_schema(rel, tup, schema, v)
       ELSE find_partial_tup_in_schema(rel, tup, schema, v)

RECURSIVE FindFrom(_, _, _, _)
\* the loop over multi_labels from candidate k on; it stops after the first
\* candidate that leaves is_correct True
FindFrom(rel, schema, k, v) ==
    IF k > Len(rel.multi_labels) THEN v
    ELSE LET w == find_single_label_relationship_in_schema(
                      rel, rel.multi_labels[k], schema, v)
         IN IF w.is_correct = "True" THEN w ELSE FindFrom(rel, schema, k + 1, w)

\* the is_correct and schema_match keys of rel after the call ("unset": no key)
find_relationship_in_schema(rel, schema) ==
    FindFrom(rel, schema, 1, [is_correct |-> "unset", schema_match |-> "unset"])

(***************************************************************************)
(* Direction corrector                                                     *)
(***************************************************************************)

new_relationship(rel) ==
    LET old == rel.whole_relationship
    IN IF rel.direction = ">"
       THEN Replace(Replace(old, <<"-", ">">>, <<"-">>), <<")", "-">>, <<")", "<", "-">>)
       ELSE Replace(Replace(old, <<"<", "-">>, <<"-">>), <<"-", "(">>, <<"-", ">", "(">>)

\* cypher_text.replace(old_relationship, new_relationship)
switch_direction(text, rel) ==
    Replace(text, rel.whole_relationship, new_relationship(rel))

(***************************************************************************)
(* Inputs                                                                  *)
(***************************************************************************)

\* longest schema, in triples
MaxSchemaLen == 2

A_ == <<"A">>
B_ == <<"B">>
C_ == <<"C">>
X_ == <<"X">>
Y_ == <<"Y">>

\* "(a:A)", "(b:B)", "(a)", "()", "(:A)"
NodeA == <<"(", "a", ":", "A", ")">>
NodeB == <<"(", "b", ":", "B", ")">>
NodeVarA == <<"(", "a", ")">>
NodeAnon == <<"(", ")">>
NodeAnonA == <<"(", ":", "A", ")">>

\* "(b:B {})": a node with a property map
NodeBProps == <<"(", "b", ":", "B", " ", "{", "}", ")">>

Nodes == {NodeA, NodeB, NodeVarA, NodeAnon, NodeAnonA}
CoreNodes == {NodeA, NodeB}

\* "-[:X]->", "<-[:X]-", "-[:X]-", "-[:X|Y]->", "<-[:Y|X]-", "-[:!X]->",
\* "-[:!Z]->", "-[:X*]->", "-[:X*1..2]->", "-[:X*2]->", "-[r]->", "<--"
RelRight == <<"-", "[", ":", "X", "]", "-", ">">>
RelLeft == <<"<", "-", "[", ":", "X", "]", "-">>
RelNone == <<"-", "[", ":", "X", "]", "-">>
RelMulti == <<"-", "[", ":", "X", "|", "Y", "]", "-", ">">>
RelMultiLeft == <<"<", "-", "[", ":", "Y", "|", "X", "]", "-">>
RelNotX == <<"-", "[", ":", "!", "X", "]", "-", ">">>
RelNotZ == <<"-", "[", ":", "!", "Z", "]", "-", ">">>
RelStar == <<"-", "[", ":", "X", "*", "]", "-", ">">>
RelRange == <<"-", "[", ":", "X", "*", "1", ".", ".", "2", "]", "-", ">">>
RelFixed == <<"-", "[", ":", "X", "*", "2", "]", "-", ">">>
RelVar == <<"-", "[", "r", "]", "-", ">">>
RelBare == <<"<", "-", "-">>

\* "-[:X {}]->": a relationship with a property map
RelProps == <<"-", "[", ":", "X", " ", "{", "}", "]", "-", ">">>

Rels == {RelRight, RelLeft, RelNone, RelMulti, RelMultiLeft, RelNotX, RelNotZ,
         RelStar, RelRange, RelFixed, RelVar, RelBare}
CoreRels == {RelRight, RelLeft}

\* one relationship between two nodes
Hops == {n1 \o r \o n2 : n1 \in Nodes, r \in Rels, n2 \in Nodes}

\* what may follow a relationship that ends in "(a:A)" or "(b:B)": a further
\* relationship from that node, or "," and a second path
Extensions ==
    {r \o n : r \in CoreRels, n \in CoreNodes}
    \cup {<<",">> \o NodeA \o r \o NodeB : r \in CoreRels}

\* "(c:C {}),": a node with a property map that starts no relationship
Declaration == <<"(", "c", ":", "C", " ", "{", "}", ")", ",">>

\* a relationship from a node with a property map, alone or after a declaration
PropsHops ==
    {d \o NodeBProps \o r \o n2 :
        d \in {<<>>, Declaration}, r \in Rels \cup {RelProps},
        n2 \in Nodes \cup {NodeBProps}}

Texts ==
    Hops \cup PropsHops
    \cup {n1 \o r \o n2 \o e :
             n1 \in Nodes, r \in Rels, n2 \in CoreNodes, e \in Extensions}

\* the triples a schema is made of
Triples == {<<A_, X_, B_>>, <<B_, X_, A_>>, <<B_, Y_, A_>>, <<A_, X_, C_>>}

RECURSIVE SeqsUpTo(_, _)
\* the non-empty sequences over S of length at most n
SeqsUpTo(S, n) ==
    IF n = 0 THEN {}
    ELSE LET shorter == SeqsUpTo(S, n - 1)
         IN {<<x>> : x \in S} \cup shorter
            \cup {Append(q, x) : q \in shorter, x \in S}

RECURSIVE Join(_, _)
\* sep.join(parts)
Join(parts, sep) ==
    IF Len(parts) = 0 THEN <<>>
    ELSE IF Len(parts) = 1 THEN parts[1]
    ELSE parts[1] \o sep \o Join(Tail(parts), sep)

\* "(f1, f2, ...)" for a group of fields
GroupText(fields) == <<"(">> \o Join(fields, <<",", " ">>) \o <<")">>

\* "(L1, T1, L2), (L3, T2, L4)" for a list of groups
SchemaText(groups) ==
    Join([k \in 1..Len(groups) |-> GroupText(groups[k])], <<",", " ">>)

SchemaTexts == {SchemaText(q) : q \in SeqsUpTo(Triples, MaxSchemaLen)}

(***************************************************************************)
(* fix_cypher_relationship_directions                                      *)
(***************************************************************************)

Init ==
    /\ input_text \in Texts
    /\ schema_text \in SchemaTexts
    /\ cypher_text = input_text
    /\ schema_lst = <<>>
    /\ relationships = <<>>
    /\ idx = 0
    /\ pc = "start"
    /\ call = 1
    /\ first_result = <<>>

\* lines 64-68: the schema list and the relationships of the original text
Scan ==
    /\ pc = "start"
    /\ schema_lst' = process_schema(schema_text)
    /\ relationships' = detect_relationships(cypher_text, schema_lst')
    /\ idx' = 1
    /\ pc' = IF Len(relationships') = 0 THEN "done" ELSE "loop"
    /\ UNCHANGED <<input_text, schema_text, cypher_text, call, first_result>>

\* relationships[idx] with the keys written by find_relationship_in_schema
Judged == 
    LET rel == relationships[idx]
        v == find_relationship_in_schema(rel, schema_lst)
    IN [rel EXCEPT !.is_correct = v.is_correct, !.schema_match = v.schema_match]

\* line 75
Rejects(rel) == rel.schema_match = "False"
\* line 80
Flips(rel) == rel.is_correct = "False"

AfterStep == IF idx + 1 > Len(relationships) THEN "done" ELSE "loop"

\* lines 72-77: a relationship without schema counterpart empties the text
RejectStep ==
    /\ pc = "loop"
    /\ Rejects(Judged)
    /\ relationships' = [relationships EXCEPT ![idx] = Judged]
    /\ cypher_text' = <<>>
    /\ pc' = "done"
    /\ UNCHANGED <<input_text, schema_text, schema_lst, idx, call, first_result>>

\* lines 72-81: a relationship found reversed is rewritten in the text
FlipStep ==
    /\ pc = "loop"
    /\ ~Rejects(Judged)
    /\ Flips(Judged)
    /\ relationships' = [relationships EXCEPT ![idx] = Judged]
    /\ cypher_text' = switch_direction(cypher_text, Judged)
    /\ idx' = idx + 1
    /\ pc' = AfterStep
    /\ UNCHANGED <<input_text, schema_text, schema_lst, call, first_result>>

\* lines 72-81: nothing to do for this relationship
KeepStep ==
    /\ pc = "loop"
    /\ ~Rejects(Judged)
    /\ ~Flips(Judged)
    /\ relationships' = [relationships EXCEPT ![idx] = Judged]
    /\ idx' = idx + 1
    /\ pc' = AfterStep
    /\ UNCHANGED <<input_text, schema_text, cypher_text, schema_lst, call,
                   first_result>>

\* the function called again on the non-empty text it returned
CallAgain ==
    /\ pc = "done"
    /\ call = 1
    /\ cypher_text # <<>>
    /\ first_result' = cypher_text
    /\ call' = 2
    /\ schema_lst' = <<>>
    /\ relationships' = <<>>
    /\ idx' = 0
    /\ pc' = "start"
    /\ UNCHANGED <<input_text, schema_text, cypher_text>>

Next == Scan \/ RejectStep \/ FlipStep \/ KeepStep \/ CallAgain

Spec == Init /\ [][Next]_vars

(***************************************************************************)
(* process_schema on arbitrary groups                                      *)
(***************************************************************************)

\* groups of one to four fields
Groups == UNION {[1..n -> {A_, X_}] : n \in 1..4}

\* with and without the blank after a comma
AnySchemaTexts ==
    LET texts == {SchemaText(q) : q \in SeqsUpTo(Groups, MaxSchemaLen)}
    IN texts \cup {RemoveChars(t, {" "}) : t \in texts}

InitSchema ==
    /\ schema_text \in AnySchemaTexts
    /\ input_text = <<>>
    /\ cypher_text = <<>>
    /\ schema_lst = <<>>
    /\ relationships = <<>>
    /\ idx = 0
    /\ pc = "schema"
    /\ call = 1
    /\ first_result = <<>>

\* line 65 alone: process_schema returns its list
ParseSchema ==
    /\ pc = "schema"
    /\ schema_lst' = process_schema(schema_text)
    /\ pc' = "parsed"
    /\ UNCHANGED <<input_text, schema_text, cypher_text, relationships, idx,
                   call, first_result>>

NextSchema == ParseSchema

SpecSchema == InitSchema /\ [][NextSchema]_vars

(***************************************************************************)
(* Vocabulary of the properties                                            *)
(***************************************************************************)

\* the relationships the loop has gone through
Processed == {k \in 1..Len(relationships) : k < idx \/ (pc = "done" /\ k = idx)}

\* how lines 75 and 80 read the keys of a processed relationship
Outcome(rel) ==
    IF rel.schema_match = "False" THEN "no match"
    ELSE IF rel.is_correct = "False" THEN "needs-flip"
    ELSE "correct"

Fixable(rel) ==
    /\ rel.direction \in {"<", ">"}
    /\ rel.node1.label1 # rel.node2.label1
    /\ ~rel.is_variable_length

\* (source, type, target) as the arrow reads
Oriented(rel, label) ==
    IF rel.direction = "<" THEN <<rel.node2.label1, label, rel.node1.label1>>
    ELSE <<rel.node1.label1, label, rel.node2.label1>>

Mirror(t) == <<t[3], t[2], t[1]>>

\* the triple agrees with t on every non-empty slot of t
Agrees(t, triple) == \A k \in 1..3 : t[k] = <<>> \/ t[k] = triple[k]

InSchema(t) == \E k \in 1..Len(schema_lst) : Agrees(t, schema_lst[k])

\* the column-projection reference for one candidate type
Reference(rel, label) ==
    IF InSchema(Oriented(rel, label)) THEN "correct"
    ELSE IF InSchema(Mirror(Oriented(rel, label))) THEN "needs-flip"
    ELSE "no match"

SingleType(rel) == ~rel.is_negated_label /\ Len(rel.multi_labels) = 1

AllKnown(rel) ==
    /\ rel.node1.label1 # <<>>
    /\ rel.node2.label1 # <<>>
    /\ \A k \in 1..Len(rel.multi_labels) : rel.multi_labels[k] # <<>>

\* the span of the relationship in a text of the same layout as the input
SpanOf(text, rel) ==
    LET last == rel.start + Len(rel.whole_relationship) - 1
    IN IF last <= Len(text) THEN SubSeq(text, rel.start, last) ELSE <<>>

(***************************************************************************)
(* C1                                                                      *)
(***************************************************************************)

\* fixable, one type, all three parts known, in the schema in no orientation
Unmatchable(rel) ==
    /\ Fixable(rel)
    /\ SingleType(rel)
    /\ AllKnown(rel)
    /\ Reference(rel, rel.multi_labels[1]) = "no match"

\* C1: when the call has returned and some detected relationship is fixable,
\* has one type, has all three parts known and is in the schema neither as
\* written nor reversed, the returned text is empty.
C1_FailClosed ==
    (pc = "done" /\ \E k \in 1..Len(relationships) : Unmatchable(relationships[k]))
        => cypher_text = <<>>

\* the unmatchable relationship is the second one, after a flipped one
C1_Witness ==
    /\ pc = "done"
    /\ Len(relationships) = 2
    /\ relationships[1].is_correct = "False"
    /\ Unmatchable(relationships[2])
    /\ cypher_text = <<>>

(***************************************************************************)
(* C2                                                                      *)
(***************************************************************************)

\* the verdict of the first candidate, in listed order, that matches
FirstMatch(rel) ==
    LET hits == {k \in 1..Len(rel.multi_labels) :
                    Reference(rel, rel.multi_labels[k]) # "no match"}
    IN IF hits = {} THEN "no match"
       ELSE Reference(rel, rel.multi_labels[CHOOSE k \in hits : \A j \in hits : k <= j])

\* C2: a processed fixable relationship with several candidate types has the
\* verdict of its first candidate that is correct or needs a flip, and has
\* no match only if no candidate matches.
C2_FirstMatchWins ==
    \A k \in Processed :
        LET rel == relationships[k]
        IN (Fixable(rel) /\ Len(rel.multi_labels) > 1)
               => Outcome(rel) = FirstMatch(rel)

(***************************************************************************)
(* C3                                                                      *)
(***************************************************************************)

\* the type a negated relationship excludes
Excluded(rel) == LStrip(rel.tup[2], "!")

\* a schema triple of another type between the known labels, either way round
OtherTypeFits(rel) ==
    \E k \in 1..Len(schema_lst) :
        /\ schema_lst[k][2] # Excluded(rel)
        /\ \/ Agrees(Oriented(rel, <<>>), schema_lst[k])
           \/ Agrees(Mirror(Oriented(rel, <<>>)), schema_lst[k])

\* C3: a processed fixable negated relationship is matched exactly when the
\* schema has a triple of another type whose labels are compatible with its
\* known labels in the forward or the reversed orientation.
C3_NegationMatch ==
    \A k \in Processed :
        LET rel == relationships[k]
        IN (Fixable(rel) /\ rel.is_negated_label)
               => (Outcome(rel) # "no match" <=> OtherTypeFits(rel))

(***************************************************************************)
(* C7                                                                      *)
(***************************************************************************)

Unfixable(rel) ==
    \/ rel.direction = ""
    \/ rel.is_variable_length
    \/ rel.node1.label1 = rel.node2.label1

\* C7: the step that processes a relationship that is undirected,
\* variable-length or between equal primary labels reads it as matched and
\* correct, whatever its candidate list, and leaves the text as it is.
C7_UnfixableInert ==
    [][(pc = "loop" /\ Unfixable(relationships[idx]))
           => /\ Outcome(relationships'[idx]) = "correct"
              /\ cypher_text' = cypher_text]_vars

\* a variable-length relationship whose only type is nowhere in the schema
C7_Witness ==
    \E k \in Processed :
        LET rel == relationships[k]
        IN /\ rel.is_variable_length
           /\ rel.direction # ""
           /\ rel.node1.label1 # rel.node2.label1
           /\ Len(rel.multi_labels) = 1
           /\ Reference(rel, rel.multi_labels[1]) = "no match"
           /\ cypher_text # <<>>

(***************************************************************************)
(* C9                                                                      *)
(***************************************************************************)

EmptySlots(t) == Cardinality({k \in 1..3 : t[k] = <<>>})

\* C9: a processed fixable relationship with one candidate whose oriented
\* tuple has one or two empty slots has the verdict of the column-projection
\* reference.
C9_PartialReference ==
    \A k \in Processed :
        LET rel == relationships[k]
        IN (/\ Fixable(rel)
            /\ SingleType(rel)
            /\ EmptySlots(Oriented(rel, rel.multi_labels[1])) \in {1, 2})
               => Outcome(rel) = Reference(rel, rel.multi_labels[1])

\* type and target known, source unknown, arrow to the left, found reversed
C9_Witness ==
    \E k \in Processed :
        LET rel == relationships[k]
            t == Oriented(rel, rel.multi_labels[1])
        IN /\ Fixable(rel)
           /\ SingleType(rel)
           /\ rel.direction = "<"
           /\ t[1] = <<>> /\ t[2] # <<>> /\ t[3] # <<>>
           /\ Outcome(rel) = "needs-flip"

(***************************************************************************)
(* C10                                                                     *)
(***************************************************************************)

\* C10: a node without inline label and without variable name has the empty
\* primary label.
C10_AnonymousStaysEmpty ==
    \A k \in 1..Len(relationships) :
        LET rel == relationships[k]
        IN /\ (rel.node1.var_name = <<>> /\ rel.node1.labels = <<>>)
                  => rel.node1.label1 = <<>>
           /\ (rel.node2.var_name = <<>> /\ rel.node2.labels = <<>>)
                  => rel.node2.label1 = <<>>

(***************************************************************************)
(* C4                                                                      *)
(***************************************************************************)

\* C4: the list process_schema returns holds tuples of three fields only;
\* a group of another size makes it fail instead of returning.
C4_MalformedSchemaFails ==
    pc = "parsed" => \A k \in 1..Len(schema_lst) : Len(schema_lst[k]) = 3

(***************************************************************************)
(* C5                                                                      *)
(***************************************************************************)

RECURSIVE FirstIndex(_, _, _)
FirstIndex(s, ch, p) ==
    IF p > Len(s) \/ s[p] = ch THEN p ELSE FirstIndex(s, ch, p + 1)

RECURSIVE LastIndex(_, _, _)
LastIndex(s, ch, p) ==
    IF p < 1 \/ s[p] = ch THEN p ELSE LastIndex(s, ch, p - 1)

\* the span with its arrowhead at the other end: nodes and body untouched
MoveArrow(whole) ==
    LET p == FirstIndex(whole, ")", 1)
        q == LastIndex(whole, "(", Len(whole))
        n1 == SubSeq(whole, 1, p)
        arrow == SubSeq(whole, p + 1, q - 1)
        n2 == SubSeq(whole, q, Len(whole))
    IN IF arrow[1] = "<" THEN n1 \o Tail(arrow) \o <<">">> \o n2
       ELSE n1 \o <<"<">> \o SubSeq(arrow, 1, Len(arrow) - 1) \o n2

\* the text with the span of rel, and nothing else, rewritten
OnlySpanFlipped(text, rel) ==
    SubSeq(text, 1, rel.start - 1) \o MoveArrow(rel.whole_relationship)
        \o SubSeq(text, rel.start + Len(rel.whole_relationship), Len(text))

NeedsFlip(rel) ==
    /\ Fixable(rel)
    /\ SingleType(rel)
    /\ AllKnown(rel)
    /\ Reference(rel, rel.multi_labels[1]) = "needs-flip"

\* C5: the step that processes a fixable one-type relationship with all parts
\* known, found reversed only, moves the arrowhead of that span and leaves
\* every other character of the text as it was.
C5_TargetedFlip ==
    [][(pc = "loop" /\ NeedsFlip(relationships[idx]))
           => cypher_text' = OnlySpanFlipped(cypher_text, relationships[idx])]_vars

(***************************************************************************)
(* C6                                                                      *)
(***************************************************************************)

\* C6: the call on the non-empty text returned by a first call returns that
\* text again.
C6_Idempotent ==
    (call = 2 /\ pc = "done") => cypher_text = first_result

(***************************************************************************)
(* C8                                                                      *)
(***************************************************************************)

CorrectAsWritten(rel) ==
    /\ Fixable(rel)
    /\ SingleType(rel)
    /\ AllKnown(rel)
    /\ Reference(rel, rel.multi_labels[1]) = "correct"

\* C8: when the call returns a non-empty text, the span of every fixable
\* one-type relationship with all parts known whose oriented triple is in the
\* schema reads in the returned text as in the input, whatever the other
\* relationships are.
C8_CorrectKept ==
    (pc = "done" /\ cypher_text # <<>>) =>
        \A k \in 1..Len(relationships) :
            CorrectAsWritten(relationships[k])
                => SpanOf(cypher_text, relationships[k])
                       = relationships[k].whole_relationship

====
